---- MODULE Spec2Model ----
(***************************************************************************)
(* The resource mirror of ccm: the resource pool, the bootstrap loader     *)
(* (Manager::retrieve_resources) and the reconciliation of one batch of    *)
(* store notifications (Manager::handle_notifier_events), with the child   *)
(* lists of Provider / Collection / Calendar and the root                  *)
(* CollectionsModel.                                                       *)
(*                                                                         *)
(* Objects are reference-counted GObjects: the model keeps them in a heap  *)
(* `objs` and refers to them by handle (their index), so that "the same    *)
(* object" and "another object with the same uri" are different things.    *)
(*                                                                         *)
(* Granularity: handle_notifier_events is one step for its prologue (lock, *)
(* partition, resolution of the creates), then one step per item of the    *)
(* create loops, one step for the resolution of the updates, one step per  *)
(* update and per delete, and one step for the return. The bootstrap is    *)
(* one step per fetched row. Both run on the main context (the spawned     *)
(* future and the notifier's signal), so a batch and the bootstrap do not  *)
(* interleave, but either may come first.                                  *)
(*                                                                         *)
(* The consumer's calls (the write-back calls, find_resource) are steps of *)
(* their own; the consumer runs on the main context too, between two       *)
(* callbacks. search_events is checked under SearchSpec, on the views the  *)
(* bootstrap builds.                                                       *)
(*                                                                         *)
(* A panic (unwrap, expect, todo!) inside a callback ends the program:     *)
(* phase = "panicked" is final.                                            *)
(*                                                                         *)
(* The store is the environment: what a query returns for an id is drawn   *)
(* from small sets when the query is made. An Event's description is       *)
(* carried like its name and is left out.                                  *)
(***************************************************************************)
EXTENDS Integers, Sequences, FiniteSets, TLC

\* ------------------------------------------------------------------ bounds
MaxObjs == 4        \* objects ever constructed
MaxEvents == 3      \* notifications delivered, over all batches
MaxBatchLen == 2    \* notifications in one batch
MaxMatches == 3     \* ids returned by the cursor of one search

\* ------------------------------------------------------------ store inputs
\* The ids the store hands out; an id names a resource of one kind.
Ids == {"p1", "c1", "k1", "k2", "e1"}

KindOf(uri) ==
    CASE uri = "p1" -> "Provider"
      [] uri \in {"c1", "c2"} -> "Collection"
      [] uri \in {"k1", "k2", "k3"} -> "Calendar"
      [] uri \in {"e1", "e2"} -> "Event"

Names == {"a", "b"}
Colors == {"red", "blue"}
NoColor == "none"
NoLog == "none"
\* warn!: the declared parent of a created or fetched resource is not in the
\* pool as a resource of the parent kind
WarnParent == "parent does not exist"
\* warn!("Resource {deleted_uri} was deleted but is not found locally")
WarnNotFound == "deleted but not found locally"
NoParent == "none"

\* The parent ids the store may declare for an id: the id of its parent,
\* and for some ids also an id of another kind (c1 itself, the provider,
\* the collection).
DeclaredParents(uri) ==
    CASE uri = "p1" -> {NoParent}
      [] uri = "c1" -> {"p1", "c1"}
      [] uri = "k1" -> {"c1"}
      [] uri = "k2" -> {"c1", "p1"}
      [] uri = "e1" -> {"k1", "c1"}

\* Names are drawn for calendars (the only kind whose update is defined).
NamesOf(kind) == IF kind = "Calendar" THEN Names ELSE {"a"}

Err == [kind |-> "Err", uri |-> "", parent |-> NoParent, name |-> "", color |-> NoColor]

Pre(kind, uri, parent, name, color) ==
    [kind |-> kind, uri |-> uri, parent |-> parent, name |-> name, color |-> color]

\* PreCalendar::from_uri: Err(()) when the row is missing, the cursor fails
\* or the color does not parse; otherwise the scalar snapshot.
PreCalendarFromUri(uri) ==
    {Err} \cup {Pre("Calendar", uri, p, n, c) :
                    p \in DeclaredParents(uri), n \in Names, c \in Colors}

\* PreEvent::from_uri
PreEventFromUri(uri) ==
    {Err} \cup {Pre("Event", uri, p, n, NoColor) :
                    p \in DeclaredParents(uri), n \in NamesOf("Event")}

PreProviderFromUri(uri) ==
    {Err} \cup {Pre("Provider", uri, NoParent, n, NoColor) : n \in NamesOf("Provider")}

PreCollectionFromUri(uri) ==
    {Err} \cup {Pre("Collection", uri, p, n, NoColor) :
                    p \in DeclaredParents(uri), n \in NamesOf("Collection")}

\* PreResource::from_uri: the results the store can give for one id.
FromUri(uri) ==
    CASE KindOf(uri) = "Provider" -> PreProviderFromUri(uri)
      [] KindOf(uri) = "Collection" -> PreCollectionFromUri(uri)
      [] KindOf(uri) = "Calendar" -> PreCalendarFromUri(uri)
      [] KindOf(uri) = "Event" -> PreEventFromUri(uri)

AllPre == UNION {FromUri(u) : u \in Ids}

EventTypes == {"Create", "Update", "Delete"}
NotifierEvent == [type : EventTypes, uri : Ids]
Batches == UNION {[1..n -> NotifierEvent] : n \in 1..MaxBatchLen}

\* ------------------------------------------------------------------- state
VARIABLES
    objs,           \* heap: handle -> [kind, uri, name, color]
    lists,          \* handle -> the object's child ListStore (handles)
    connected,      \* handle -> the Collection whose "deleted" handler is connected (0: none)
    root,           \* Manager.collections_model
    pool,           \* Manager.resource_pool: set of [uri, obj] entries
    deltas,         \* items_changed emissions of the last step
    log,            \* the warn! of the last step
    phase,          \* handle_notifier_events: "idle", "busy", "panicked"
    events,         \* the batch being handled
    created_resources,  \* the resolved creates of the batch, in batch order
    pending,        \* created_resources still to be processed, in processing order
    updated_uris,
    update_events,  \* (old, new) pairs of the update phase
    deleted_uris,
    lock,           \* holder of the resource_pool mutex
    boot,           \* retrieve_resources: position
    fetched,        \* the rows the current bootstrap cursor returned
    nevents,
    objs0,          \* Len(objs) when the batch being handled started
    written,        \* the D-Bus calls the last step sent to the write service
    returned        \* what the consumer call of the last step returned

vars == <<objs, lists, connected, root, pool, deltas, log, phase, events,
          created_resources, pending, updated_uris, update_events, deleted_uris, lock, boot, fetched,
          nevents, objs0, written, returned>>

handlerVars == <<phase, events, created_resources, pending, updated_uris, update_events,
                 deleted_uris, lock, nevents, objs0>>

\* --------------------------------------------------------------- pool ops
PoolHas(p, uri) == \E e \in p : e.uri = uri

\* HashMap::get(..).cloned(): the handle, 0 for None
PoolGet(p, uri) ==
    IF PoolHas(p, uri) THEN (CHOOSE e \in p : e.uri = uri).obj ELSE 0

\* mutant: insert that keeps the previous mapping of the key
PoolInsert_KeepOld(p, uri, h) == p \cup {[uri |-> uri, obj |-> h]}

\* HashMap::insert: the previous mapping of the key is replaced
PoolInsert(p, uri, h) ==
    {e \in p : e.uri # uri} \cup {[uri |-> uri, obj |-> h]}

\* Manager::find_resource
find_resource(uri) == PoolGet(pool, uri)

\* mutant: the kind of the pooled Resource is not matched
GetOfKind_AnyKind(p, os, uri, kind) == PoolGet(p, uri)

\* Some(Resource::<kind>(x)) = resource_pool.get(uri)
GetOfKind(p, os, uri, kind) ==
    LET h == PoolGet(p, uri)
    IN  IF h # 0 /\ os[h].kind = kind THEN h ELSE 0

\* --------------------------------------------------------------- list ops
Delta(list, position, removed, added) ==
    [list |-> list, position |-> position, removed |-> removed, added |-> added]

\* ListStore::find: the first position (from 1) of h, 0 when absent
Find(s, h) ==
    IF \E i \in 1..Len(s) : s[i] = h
    THEN CHOOSE i \in 1..Len(s) : s[i] = h /\ \A j \in 1..(i - 1) : s[j] # h
    ELSE 0

\* mutant: the last item takes the place of the removed one (swap_remove)
RemoveAt_Swap(s, i) ==
    IF i = Len(s) THEN SubSeq(s, 1, Len(s) - 1)
    ELSE SubSeq([s EXCEPT ![i] = s[Len(s)]], 1, Len(s) - 1)

\* ListStore::remove(index)
RemoveAt(s, i) == SubSeq(s, 1, i - 1) \o SubSeq(s, i + 1, Len(s))

\* ListStore::append on the child list of `owner`: the list and its delta
\* (positions of deltas count from 0, as items_changed does)
ListAppend(ls, owner, h) == [ls EXCEPT ![owner] = Append(@, h)]

\* mutant: the delta reports the head of the list
AppendDelta_AtHead(ls, owner) == Delta(owner, 0, 0, 1)

AppendDelta(ls, owner) == Delta(owner, Len(ls[owner]), 0, 1)

\* ---------------------------------------------------------- consumer calls
\* a consumer call and its outcome: the argument (an id or a query), whether
\* a query was sent to the store, the ids the store's cursor returned, and
\* the returned value (a list of objects; None is the empty list)
Returned(call, arg, queried, matched, value) ==
    [call |-> call, arg |-> arg, queried |-> queried, matched |-> matched,
     value |-> value]
NoReturn == Returned("none", "", FALSE, <<>>, <<>>)

\* ------------------------------------------------------------------- Init
Init ==
    /\ objs = <<>>
    /\ lists = <<>>
    /\ connected = <<>>
    /\ root = <<>>
    /\ pool = {}
    /\ deltas = <<>>
    /\ log = NoLog
    /\ phase = "idle"
    /\ events = <<>>
    /\ created_resources = <<>>
    /\ pending = <<>>
    /\ updated_uris = <<>>
    /\ update_events = <<>>
    /\ deleted_uris = <<>>
    /\ lock = "free"
    /\ boot = "pending"
    /\ fetched = {}
    /\ nevents = 0
    /\ objs0 = 0
    /\ written = <<>>
    /\ returned = NoReturn

\* a step that is no consumer call: nothing is sent to the write service
\* and nothing is returned
NoCall ==
    /\ written' = <<>>
    /\ returned' = NoReturn


\* ------------------------------------------------------------ constructors
\* Provider::new / Collection::new / Calendar::new / Event::new: a fresh
\* object with an empty child list and no signal handler
NewObj(pre) == [kind |-> pre.kind, uri |-> pre.uri, name |-> pre.name, color |-> pre.color]

ParentKind(kind) ==
    CASE kind = "Collection" -> "Provider"
      [] kind = "Calendar" -> "Collection"
      [] kind = "Event" -> "Calendar"
      [] OTHER -> "None"

\* mutant: a missing declared parent falls back to any pooled resource of
\* the parent kind
ParentOf_Fallback(p, os, pre) ==
    LET h == GetOfKind(p, os, pre.parent, ParentKind(pre.kind))
        others == {e \in p : os[e.obj].kind = ParentKind(pre.kind)}
    IN  IF h = 0 /\ others # {} THEN (CHOOSE e \in others : TRUE).obj ELSE h

\* the pattern match on the declared parent:
\* Some(Resource::<ParentKind>(parent)) = resource_pool.get(&parent_uri)
ParentOf(p, os, pre) == GetOfKind(p, os, pre.parent, ParentKind(pre.kind))

\* mutant: the new object is appended twice
AddChild_Twice(ls, parent, h) ==
    [Append(ls, <<>>) EXCEPT ![parent] = Append(Append(@, h), h)]

\* Provider::add_collection / Collection::add_calendar / Calendar::add_event:
\* append the new object (handle h) to the parent's ListStore
AddChild(ls, parent, h) == ListAppend(Append(ls, <<>>), parent, h)

\* Collection::add_calendar also connects the collection's handler to the
\* calendar's "deleted" signal
ConnectDeleted(cn, kind, parent) ==
    Append(cn, IF kind = "Calendar" THEN parent ELSE 0)

\* mutant: the root model is left as it is
ModelAppend_Skip(r, h) == r

\* CollectionsModel::append
ModelAppend(r, h) == Append(r, h)
ModelAppendDelta(r) == Delta(0, Len(r), 0, 1)

\* mutant: a splice reports one added item, as an append does
ModelSpliceDelta_One(r, collections) == Delta(0, Len(r), 0, 1)

\* CollectionsModel::splice: extend_from_slice, then
\* items_changed(old length, 0, len)
ModelSplice(r, collections) == r \o collections
ModelSpliceDelta(r, collections) == Delta(0, Len(r), 0, Len(collections))

\* CollectionsModel::remove: Vec::remove(pos), then items_changed(pos, 1, 0);
\* pos counts from 0
ModelRemove(r, pos) == RemoveAt(r, pos + 1)
ModelRemoveDelta(r, pos) == Delta(0, pos, 1, 0)

\* mutant: a child whose parent is missing is built and pooled all the same
CreateChild_Orphan(pre, toRoot) ==
    LET parent == GetOfKind(pool, objs, pre.parent, ParentKind(pre.kind))
        h == Len(objs) + 1
    IN  /\ objs' = Append(objs, NewObj(pre))
        /\ lists' = IF parent # 0
                    THEN ListAppend(Append(lists, <<>>), parent, h)
                    ELSE Append(lists, <<>>)
        /\ connected' = Append(connected, IF pre.kind = "Calendar" THEN parent ELSE 0)
        /\ root' = IF toRoot /\ parent # 0 THEN Append(root, h) ELSE root
        /\ pool' = PoolInsert(pool, pre.uri, h)
        /\ deltas' = IF parent # 0 THEN <<AppendDelta(lists, parent)>> ELSE <<>>
        /\ log' = IF parent # 0 THEN NoLog ELSE WarnParent

\* One item of the loops "Create collections / calendars / events" and of
\* the bootstrap fetches: attach to the parent found in the pool, or warn
\* and leave all as it is. Only the bootstrap (toRoot) appends a
\* Collection to the root model.
CreateChild(pre, toRoot) ==
    LET parent == ParentOf(pool, objs, pre)
        h == Len(objs) + 1
    IN  IF parent # 0
        THEN /\ objs' = Append(objs, NewObj(pre))
             /\ lists' = AddChild(lists, parent, h)
             /\ connected' = ConnectDeleted(connected, pre.kind, parent)
             /\ root' = IF toRoot THEN ModelAppend(root, h) ELSE root
             /\ pool' = PoolInsert(pool, pre.uri, h)
             /\ deltas' = <<AppendDelta(lists, parent)>>
                            \o (IF toRoot THEN <<ModelAppendDelta(root)>> ELSE <<>>)
             /\ log' = NoLog
        ELSE /\ UNCHANGED <<objs, lists, connected, root, pool>>
             /\ deltas' = <<>>
             /\ log' = WarnParent

\* ------------------------------------------------- handle_notifier_events
\* created_uris / updated_uris / deleted_uris: the ids of one type, in
\* batch order
UrisOf(evs, type) ==
    LET s == SelectSeq(evs, LAMBDA e : e.type = type)
    IN  [i \in 1..Len(s) |-> s[i].uri]

OfKind(cr, kind) == SelectSeq(cr, LAMBDA pre : pre.kind = kind)

\* mutant: the creates are processed in batch order
CreateOrder_BatchOrder(cr) == cr

\* the four loops over created_resources, one kind after the other
CreateOrder(cr) ==
    OfKind(cr, "Provider") \o OfKind(cr, "Collection")
        \o OfKind(cr, "Calendar") \o OfKind(cr, "Event")

\* uris.map(|uri| PreResource::from_uri(..)): what the store answers for
\* each id of the sequence
RECURSIVE Resolutions(_)
Resolutions(uris) ==
    IF uris = <<>>
    THEN {<<>>}
    ELSE {<<first>> \o rest : first \in FromUri(Head(uris)),
                              rest \in Resolutions(Tail(uris))}

HasErr(res) == \E i \in 1..Len(res) : res[i] = Err

\* a panic (unwrap on None / Err, expect, todo!) while the pool is locked
Panic ==
    /\ phase' = "panicked"
    /\ lock' = "poisoned"
    /\ events' = <<>>
    /\ created_resources' = <<>>
    /\ pending' = <<>>
    /\ updated_uris' = <<>>
    /\ update_events' = <<>>
    /\ deleted_uris' = <<>>

\* mutant: the handler is entered again while a batch is being handled
HandleEvents_Reentrant(batches, maxEvents) ==
    /\ NoCall
    /\ phase # "panicked"
    /\ boot \in {"pending", "done"}
    /\ \E evs \in batches :
        LET created_uris == UrisOf(evs, "Create")
        IN  /\ nevents + Len(evs) <= maxEvents
            /\ nevents' = nevents + Len(evs)
            /\ created_uris # <<>> => Len(objs) + Len(created_uris) <= MaxObjs
            /\ \E res \in Resolutions(created_uris) :
                /\ IF HasErr(res)
                   THEN Panic
                   ELSE /\ events' = evs
                        /\ phase' = "busy"
                        /\ lock' = "handler"
                        /\ created_resources' = res
                        /\ pending' = CreateOrder(res)
                        /\ updated_uris' = UrisOf(evs, "Update")
                        /\ update_events' = <<>>
                        /\ deleted_uris' = UrisOf(evs, "Delete")
    /\ objs0' = Len(objs)
    /\ deltas' = <<>>
    /\ log' = NoLog
    /\ UNCHANGED <<objs, lists, connected, root, pool, boot, fetched>>

\* lines 282-325: lock the pool, partition the batch, resolve the creates;
\* the batch is one of `batches` and at most maxEvents notifications are
\* delivered in all
HandleEvents(batches, maxEvents) ==
    /\ NoCall
    /\ phase = "idle"
    /\ lock = "free"
    /\ boot \in {"pending", "done"}
    /\ \E evs \in batches :
        LET created_uris == UrisOf(evs, "Create")
        IN  /\ nevents + Len(evs) <= maxEvents
            /\ nevents' = nevents + Len(evs)
            /\ created_uris # <<>> => Len(objs) + Len(created_uris) <= MaxObjs
            /\ \E res \in Resolutions(created_uris) :
                /\ IF HasErr(res)
                   THEN Panic
                   ELSE /\ events' = evs
                        /\ phase' = "busy"
                        /\ lock' = "handler"
                        /\ created_resources' = res
                        /\ pending' = CreateOrder(res)
                        /\ updated_uris' = UrisOf(evs, "Update")
                        /\ update_events' = <<>>
                        /\ deleted_uris' = UrisOf(evs, "Delete")
    /\ objs0' = Len(objs)
    /\ deltas' = <<>>
    /\ log' = NoLog
    /\ UNCHANGED <<objs, lists, connected, root, pool, boot, fetched>>

HandleNotifierEvents == HandleEvents(Batches, MaxEvents)

Creating(kind) ==
    /\ phase = "busy"
    /\ pending # <<>>
    /\ Head(pending).kind = kind

\* lines 327-343
CreateProvider ==
    /\ NoCall
    /\ Creating("Provider")
    /\ objs' = Append(objs, NewObj(Head(pending)))
    /\ lists' = Append(lists, <<>>)
    /\ connected' = Append(connected, 0)
    /\ pool' = PoolInsert(pool, Head(pending).uri, Len(objs) + 1)
    /\ root' = root
    /\ deltas' = <<>>
    /\ log' = NoLog
    /\ pending' = Tail(pending)
    /\ UNCHANGED <<phase, events, created_resources, updated_uris,
                   update_events, deleted_uris, lock, boot, fetched, nevents,
                   objs0>>

\* lines 345-375
CreateCollection ==
    /\ NoCall
    /\ Creating("Collection")
    /\ CreateChild(Head(pending), FALSE)
    /\ pending' = Tail(pending)
    /\ UNCHANGED <<phase, events, created_resources, updated_uris,
                   update_events, deleted_uris, lock, boot, fetched, nevents,
                   objs0>>

\* lines 377-408
CreateCalendar ==
    /\ NoCall
    /\ Creating("Calendar")
    /\ CreateChild(Head(pending), FALSE)
    /\ pending' = Tail(pending)
    /\ UNCHANGED <<phase, events, created_resources, updated_uris,
                   update_events, deleted_uris, lock, boot, fetched, nevents,
                   objs0>>

\* lines 410-439
CreateEvent ==
    /\ NoCall
    /\ Creating("Event")
    /\ CreateChild(Head(pending), FALSE)
    /\ pending' = Tail(pending)
    /\ UNCHANGED <<phase, events, created_resources, updated_uris,
                   update_events, deleted_uris, lock, boot, fetched, nevents,
                   objs0>>


\* lines 450-457: pair every updated id with its live resource and a fresh
\* PreResource; both lookups are unwrapped
ResolveUpdates ==
    /\ NoCall
    /\ phase = "busy"
    /\ pending = <<>>
    /\ updated_uris # <<>>
    /\ \E res \in Resolutions(updated_uris) :
        IF \/ \E i \in 1..Len(updated_uris) : PoolGet(pool, updated_uris[i]) = 0
           \/ HasErr(res)
        THEN Panic
        ELSE /\ update_events' =
                    [i \in 1..Len(updated_uris) |->
                        [old |-> PoolGet(pool, updated_uris[i]), new |-> res[i]]]
             /\ updated_uris' = <<>>
             /\ UNCHANGED <<phase, lock, events, created_resources, pending,
                         deleted_uris>>
    /\ deltas' = <<>>
    /\ log' = NoLog
    /\ UNCHANGED <<objs, lists, connected, root, pool, boot, fetched, nevents,
                   objs0>>

Updating ==
    /\ phase = "busy"
    /\ pending = <<>>
    /\ updated_uris = <<>>
    /\ update_events # <<>>

\* mutant: only the name is set
EmitUpdated_NameOnly(os, h, name, color) == [os EXCEPT ![h].name = name]

\* Calendar::emit_updated: set the "name" and "color" properties of the
\* object itself
EmitUpdated(os, h, name, color) ==
    [os EXCEPT ![h].name = name, ![h].color = color]

\* mutant: the updated Calendar is taken out of its Collection's list and
\* appended again
UpdateCalendar_Reattach ==
    /\ NoCall
    /\ Updating
    /\ LET old == Head(update_events).old
           new == Head(update_events).new
           c == connected[old]
       IN  /\ objs[old].kind = "Calendar"
           /\ new.kind = "Calendar"
           /\ objs' = EmitUpdated(objs, old, new.name, new.color)
           /\ IF c # 0 /\ Find(lists[c], old) # 0
              THEN /\ lists' = [lists EXCEPT
                            ![c] = Append(RemoveAt(@, Find(@, old)), old)]
                   /\ deltas' = <<Delta(c, Find(lists[c], old) - 1, 1, 0),
                                  Delta(c, Len(lists[c]) - 1, 0, 1)>>
              ELSE /\ lists' = lists
                   /\ deltas' = <<>>
    /\ update_events' = Tail(update_events)
    /\ log' = NoLog
    /\ UNCHANGED <<connected, root, pool, phase, events,
                   created_resources, pending,
                   updated_uris, deleted_uris, lock, boot, fetched, nevents,
                   objs0>>

\* lines 469-471
UpdateCalendar ==
    /\ NoCall
    /\ Updating
    /\ LET old == Head(update_events).old
           new == Head(update_events).new
       IN  /\ objs[old].kind = "Calendar"
           /\ new.kind = "Calendar"
           /\ objs' = EmitUpdated(objs, old, new.name, new.color)
    /\ update_events' = Tail(update_events)
    /\ deltas' = <<>>
    /\ log' = NoLog
    /\ UNCHANGED <<lists, connected, root, pool, phase, events,
                   created_resources, pending,
                   updated_uris, deleted_uris, lock, boot, fetched, nevents,
                   objs0>>

\* line 472: an Event update matches and does nothing
UpdateEvent ==
    /\ NoCall
    /\ Updating
    /\ objs[Head(update_events).old].kind = "Event"
    /\ Head(update_events).new.kind = "Event"
    /\ update_events' = Tail(update_events)
    /\ deltas' = <<>>
    /\ log' = NoLog
    /\ UNCHANGED <<objs, lists, connected, root, pool, phase, events,
                   created_resources, pending,
                   updated_uris, deleted_uris, lock, boot, fetched, nevents,
                   objs0>>

\* lines 460-468, 473-475: todo!()
UpdateTodo ==
    /\ NoCall
    /\ Updating
    /\ LET old == Head(update_events).old
           new == Head(update_events).new
       IN  \/ objs[old].kind \in {"Provider", "Collection"}
           \/ objs[old].kind # new.kind
    /\ Panic
    /\ deltas' = <<>>
    /\ log' = NoLog
    /\ UNCHANGED <<objs, lists, connected, root, pool, boot, fetched, nevents,
                   objs0>>

Deleting ==
    /\ phase = "busy"
    /\ pending = <<>>
    /\ updated_uris = <<>>
    /\ update_events = <<>>
    /\ deleted_uris # <<>>

\* mutant: the lookup is unwrapped, as the update phase does
DeleteNotFound_Unwrap ==
    /\ NoCall
    /\ Deleting
    /\ PoolGet(pool, Head(deleted_uris)) = 0
    /\ Panic
    /\ deltas' = <<>>
    /\ log' = NoLog
    /\ UNCHANGED <<objs, lists, connected, root, pool, boot, fetched, nevents,
                   objs0>>

\* lines 489-492: the id is not in the pool: warn and continue
DeleteNotFound ==
    /\ NoCall
    /\ Deleting
    /\ PoolGet(pool, Head(deleted_uris)) = 0
    /\ deleted_uris' = Tail(deleted_uris)
    /\ deltas' = <<>>
    /\ log' = WarnNotFound
    /\ UNCHANGED <<objs, lists, connected, root, pool, phase, events,
                   created_resources, pending,
                   updated_uris, update_events, lock, boot, fetched, nevents,
                   objs0>>

\* the "deleted" handler connected by Collection::add_calendar:
\* calendars().find(calendar).expect(..), then calendars().remove(index)
DeletedHandlerFinds(ls, cn, h) == cn[h] # 0 /\ Find(ls[cn[h]], h) # 0

DeletedHandler(ls, cn, h) ==
    [ls EXCEPT ![cn[h]] = RemoveAt(@, Find(@, h))]

\* mutant: the deletion cascades to the calendar's events list
EmitDeleted_Cascade(ls, cn, h) ==
    IF cn[h] = 0 THEN [ls EXCEPT ![h] = <<>>]
    ELSE [DeletedHandler(ls, cn, h) EXCEPT ![h] = <<>>]

\* Calendar::emit_deleted: run the connected handler
EmitDeleted(ls, cn, h) == IF cn[h] = 0 THEN ls ELSE DeletedHandler(ls, cn, h)

EmitDeletedDeltas(ls, cn, h) ==
    IF cn[h] = 0 THEN <<>> ELSE <<Delta(cn[h], Find(ls[cn[h]], h) - 1, 1, 0)>>

\* lines 496-499
DeleteCalendar ==
    /\ NoCall
    /\ Deleting
    /\ LET uri == Head(deleted_uris)
           h == PoolGet(pool, uri)
       IN  /\ h # 0
           /\ objs[h].kind = "Calendar"
           /\ IF connected[h] = 0 \/ DeletedHandlerFinds(lists, connected, h)
              THEN /\ lists' = EmitDeleted(lists, connected, h)
                   /\ deltas' = EmitDeletedDeltas(lists, connected, h)
                   /\ log' = NoLog
                   /\ deleted_uris' = Tail(deleted_uris)
                   /\ UNCHANGED <<phase, lock, events, created_resources,
                                  pending, updated_uris, update_events>>
              ELSE /\ Panic
                   /\ deltas' = <<>>
                   /\ log' = NoLog
                   /\ UNCHANGED lists
    \* the entry was read with get(..).cloned(): nothing removes it
    /\ UNCHANGED <<objs, connected, root, pool, boot, fetched, nevents, objs0>>

\* lines 494, 495, 500: todo!()
DeleteTodo ==
    /\ NoCall
    /\ Deleting
    /\ LET h == PoolGet(pool, Head(deleted_uris))
       IN  h # 0 /\ objs[h].kind \in {"Provider", "Collection", "Event"}
    /\ Panic
    /\ deltas' = <<>>
    /\ log' = NoLog
    /\ UNCHANGED <<objs, lists, connected, root, pool, boot, fetched, nevents,
                   objs0>>

\* the batch is through: all three lists are empty
BatchDone ==
    /\ phase = "busy"
    /\ pending = <<>>
    /\ updated_uris = <<>>
    /\ update_events = <<>>
    /\ deleted_uris = <<>>

\* lines 504-509: return, which drops the MutexGuard
Finish ==
    /\ NoCall
    /\ BatchDone
    /\ phase' = "idle"
    /\ lock' = "free"
    /\ events' = <<>>
    /\ created_resources' = <<>>
    /\ objs0' = 0
    /\ deltas' = <<>>
    /\ log' = NoLog
    /\ UNCHANGED <<objs, lists, connected, root, pool, pending, updated_uris,
                   update_events, deleted_uris, boot, fetched, nevents>>


\* ------------------------------------------------------ retrieve_resources
\* The spawned bootstrap runs the four fetches one after the other; a
\* cursor returns each id at most once.
BootOrder == <<"pending", "Provider", "Collection", "Calendar", "Event", "done">>

\* one row of a fetch: the id and the parent id it declares
Row(uri, parent) == [uri |-> uri, parent |-> parent]

BootNextOf(b) == BootOrder[(CHOOSE i \in 1..Len(BootOrder) : BootOrder[i] = b) + 1]

Retrieving(kind, uri) ==
    /\ phase = "idle"
    /\ boot = kind
    /\ KindOf(uri) = kind
    /\ \A r \in fetched : r.uri # uri
    /\ Len(objs) < MaxObjs

\* the cursor of the current fetch is exhausted (or, at the start, the
\* spawned future is polled): go on to the next fetch
RetrieveNext ==
    /\ NoCall
    /\ phase = "idle"
    /\ boot # "done"
    /\ boot' = BootNextOf(boot)
    /\ fetched' = {}
    /\ deltas' = <<>>
    /\ log' = NoLog
    /\ UNCHANGED <<objs, lists, connected, root, pool, handlerVars>>

\* lines 143-152
RetrieveProvider ==
    /\ NoCall
    /\ \E uri \in Ids, name \in NamesOf("Provider") :
        /\ Retrieving("Provider", uri)
        /\ objs' = Append(objs, NewObj(Pre("Provider", uri, NoParent, name, NoColor)))
        /\ lists' = Append(lists, <<>>)
        /\ connected' = Append(connected, 0)
        /\ pool' = PoolInsert(pool, uri, Len(objs) + 1)
        /\ fetched' = fetched \cup {Row(uri, NoParent)}
    /\ deltas' = <<>>
    /\ log' = NoLog
    /\ UNCHANGED <<root, boot, handlerVars>>

\* lines 169-191
RetrieveCollection ==
    /\ NoCall
    /\ \E uri \in Ids : \E parent \in DeclaredParents(uri),
          name \in NamesOf("Collection") :
        /\ Retrieving("Collection", uri)
        /\ fetched' = fetched \cup {Row(uri, parent)}
        /\ CreateChild(Pre("Collection", uri, parent, name, NoColor), TRUE)
    /\ UNCHANGED <<boot, handlerVars>>

\* lines 209-237; a color that does not parse panics in expect(..)
RetrieveCalendar ==
    /\ NoCall
    /\ \E uri \in Ids : \E parent \in DeclaredParents(uri), name \in Names,
          color \in Colors \cup {"invalid"} :
        LET pre == Pre("Calendar", uri, parent, name, color)
        IN  /\ Retrieving("Calendar", uri)
            /\ fetched' = fetched \cup {Row(uri, parent)}
            /\ IF ParentOf(pool, objs, pre) # 0 /\ color = "invalid"
               THEN /\ Panic
                    /\ deltas' = <<>>
                    /\ log' = NoLog
                    /\ UNCHANGED <<objs, lists, connected, root, pool, nevents,
                                   objs0>>
               ELSE /\ CreateChild(pre, FALSE)
                    /\ UNCHANGED handlerVars
    /\ UNCHANGED boot

\* lines 255-279
RetrieveEvent ==
    /\ NoCall
    /\ \E uri \in Ids : \E parent \in DeclaredParents(uri),
          name \in NamesOf("Event") :
        /\ Retrieving("Event", uri)
        /\ fetched' = fetched \cup {Row(uri, parent)}
        /\ CreateChild(Pre("Event", uri, parent, name, NoColor), FALSE)
    /\ UNCHANGED <<boot, handlerVars>>

\* ---------------------------------------------------------- consumer calls
\* The objects a consumer holds: it calls Collection::create_calendar,
\* Calendar::update, Calendar::delete on an object it got from a list, and
\* these pass the object's own uri to the Manager.
UrisOfKind(kind) == {objs[h].uri : h \in {x \in 1..Len(objs) : objs[x].kind = kind}}

DBusCall(method, uri) == [method |-> method, uri |-> uri]

\* mutant: a DeleteCalendar call also drops the calendar from the pool
WriteBack_Optimistic(calls) ==
    /\ phase = "idle"
    /\ written' = calls
    /\ returned' = NoReturn
    /\ phase' = phase
    /\ pool' = {e \in pool : \A i \in 1..Len(calls) :
                    calls[i].method = "DeleteCalendar" => calls[i].uri # e.uri}
    /\ deltas' = <<>>
    /\ log' = NoLog
    /\ UNCHANGED <<objs, lists, connected, root, events,
                   created_resources, pending, updated_uris, update_events,
                   deleted_uris, lock, boot, fetched, nevents, objs0>>

\* write_connection().call_sync(..).unwrap(), once per call of the
\* sequence: the calls are sent to the write service; a call that fails
\* panics. Nothing of the local view is touched.
WriteBack(calls) ==
    /\ phase = "idle"
    /\ written' = calls
    /\ returned' = NoReturn
    /\ \E ok \in BOOLEAN :
        /\ ok \/ calls # <<>>
        /\ phase' = IF ok THEN phase ELSE "panicked"
    /\ deltas' = <<>>
    /\ log' = NoLog
    /\ UNCHANGED <<objs, lists, connected, root, pool, events,
                   created_resources, pending, updated_uris, update_events,
                   deleted_uris, lock, boot, fetched, nevents, objs0>>

\* lines 526-538
create_calendar ==
    \E collection_uri \in UrisOfKind("Collection") :
        WriteBack(<<DBusCall("CreateCalendar", collection_uri)>>)

\* lines 540-566: one call for a name, one for a color
update_calendar ==
    \E uri \in UrisOfKind("Calendar") : \E name \in BOOLEAN, color \in BOOLEAN :
        WriteBack((IF name THEN <<DBusCall("UpdateCalendarName", uri)>> ELSE <<>>)
                    \o (IF color THEN <<DBusCall("UpdateCalendarColor", uri)>> ELSE <<>>))

\* lines 568-580
delete_calendar ==
    \E uri \in UrisOfKind("Calendar") :
        WriteBack(<<DBusCall("DeleteCalendar", uri)>>)

\* lines 582-594
create_event ==
    \E calendar_uri \in UrisOfKind("Calendar") :
        WriteBack(<<DBusCall("CreateEvent", calendar_uri)>>)

\* mutant: the lookup does not take the mutex
FindResource_NoLock ==
    /\ phase # "panicked"
    /\ \E uri \in Ids :
        returned' = Returned("find_resource", uri, FALSE, <<>>,
                             IF find_resource(uri) = 0 THEN <<>>
                             ELSE <<find_resource(uri)>>)
    /\ written' = <<>>
    /\ deltas' = <<>>
    /\ log' = NoLog
    /\ UNCHANGED <<objs, lists, connected, root, pool, handlerVars, boot, fetched>>

\* lines 522-524: resource_pool() locks the mutex for the lookup; the call
\* waits while the handler holds it
FindResource ==
    /\ phase # "panicked"
    /\ lock = "free"
    /\ \E uri \in Ids :
        returned' = Returned("find_resource", uri, FALSE, <<>>,
                             IF find_resource(uri) = 0 THEN <<>>
                             ELSE <<find_resource(uri)>>)
    /\ written' = <<>>
    /\ deltas' = <<>>
    /\ log' = NoLog
    /\ UNCHANGED <<objs, lists, connected, root, pool, handlerVars, boot, fetched>>

\* ------------------------------------------------------------ search_events
Queries == {"", "abc"}

\* the ids the cursor of the full-text query may return: Events, and an id
\* that the pool may hold as a Resource of another kind
MatchIds == {"e1", "e2", "k1"}

Matches == UNION {[1..n -> MatchIds] : n \in 0..MaxMatches}

\* warn!("Event \"{uri}\" is not in resource pool")
WarnNotInPool == "not in resource pool"

\* mutant: the kind of the pooled Resource is not looked at
SearchResults_AnyKind(p, os, matched) ==
    LET found == SelectSeq(matched, LAMBDA uri : PoolGet(p, uri) # 0)
    IN  [i \in 1..Len(found) |-> PoolGet(p, found[i])]

\* lines 626-637: the matched ids that the pool holds as an Event, in the
\* order of the cursor; the others are skipped
SearchResults(p, os, matched) ==
    LET found == SelectSeq(matched, LAMBDA uri : GetOfKind(p, os, uri, "Event") # 0)
    IN  [i \in 1..Len(found) |-> GetOfKind(p, os, found[i], "Event")]

\* mutant: the empty query is sent to the store like any other
search_events_NoShortcut ==
    /\ phase = "idle"
    /\ lock = "free"
    /\ \E query \in Queries, matched \in Matches :
        /\ returned' = Returned("search_events", query, TRUE, matched,
                                SearchResults(pool, objs, matched))
        /\ log' = IF Len(SearchResults(pool, objs, matched)) < Len(matched)
                  THEN WarnNotInPool ELSE NoLog
    /\ written' = <<>>
    /\ deltas' = <<>>
    /\ UNCHANGED <<objs, lists, connected, root, pool, handlerVars, boot, fetched>>

\* lines 596-640: an empty query returns at once; a query whose execution
\* fails returns an empty list; otherwise the cursor is walked
search_events ==
    /\ phase = "idle"
    /\ lock = "free"
    /\ \E query \in Queries, executed \in BOOLEAN, matched \in Matches :
        LET results == SearchResults(pool, objs, matched)
        IN  IF query = ""
            THEN /\ returned' = Returned("search_events", query, FALSE, <<>>, <<>>)
                 /\ log' = NoLog
            ELSE IF ~executed
            THEN /\ returned' = Returned("search_events", query, TRUE, <<>>, <<>>)
                 /\ log' = NoLog
            ELSE /\ returned' = Returned("search_events", query, TRUE, matched, results)
                 /\ log' = IF Len(results) < Len(matched) THEN WarnNotInPool ELSE NoLog
    /\ written' = <<>>
    /\ deltas' = <<>>
    /\ UNCHANGED <<objs, lists, connected, root, pool, handlerVars, boot, fetched>>

\* ------------------------------------------------------------------- Next
Next ==
    \/ RetrieveNext
    \/ RetrieveProvider
    \/ RetrieveCollection
    \/ RetrieveCalendar
    \/ RetrieveEvent
    \/ HandleNotifierEvents
    \/ CreateProvider
    \/ CreateCollection
    \/ CreateCalendar
    \/ CreateEvent
    \/ ResolveUpdates
    \/ UpdateCalendar
    \/ UpdateEvent
    \/ UpdateTodo
    \/ DeleteNotFound
    \/ DeleteCalendar
    \/ DeleteTodo
    \/ Finish
    \/ create_calendar
    \/ update_calendar
    \/ delete_calendar
    \/ create_event
    \/ FindResource

Spec == Init /\ [][Next]_vars


\* --------------------------------------------------------------- SearchSpec
\* search_events is a function of the pool and of what the store's cursor
\* returns. It is checked on the views that the bootstrap builds from a
\* store of one Provider, one Collection, one Calendar and two Events, and
\* from the stores that hold a part of it; the ids the store matches may
\* be in the view or not.
SearchRows ==
    <<Row("p1", NoParent), Row("c1", "p1"), Row("k1", "c1"),
      Row("e1", "k1"), Row("e2", "k1")>>

SearchStores ==
    {SubSeq(SearchRows, 1, n) : n \in 0..Len(SearchRows)}
        \cup {SubSeq(SearchRows, 1, 3) \o SubSeq(SearchRows, 5, 5)}

\* the handle of the object built from the row of this id, 0 when the
\* store has no such row
HandleOf(store, uri) ==
    IF \E i \in 1..Len(store) : store[i].uri = uri
    THEN CHOOSE i \in 1..Len(store) : store[i].uri = uri
    ELSE 0

\* the handles of the rows that declare this parent, in fetch order
ChildrenOf(store, uri) ==
    SelectSeq([i \in 1..Len(store) |-> i], LAMBDA i : store[i].parent = uri)

\* retrieve_resources on a store whose rows all have their parent: the
\* objects in fetch order, every child in its parent's list, the "deleted"
\* handler of every Calendar connected to its Collection, the Collections in
\* the root list, every object in the pool
Bootstrapped(store) ==
    [objs |-> [i \in 1..Len(store) |->
                NewObj(Pre(KindOf(store[i].uri), store[i].uri, store[i].parent, "a",
                           IF KindOf(store[i].uri) = "Calendar" THEN "red" ELSE NoColor))],
     lists |-> [i \in 1..Len(store) |-> ChildrenOf(store, store[i].uri)],
     connected |-> [i \in 1..Len(store) |->
                IF KindOf(store[i].uri) = "Calendar"
                THEN HandleOf(store, store[i].parent) ELSE 0],
     root |-> SelectSeq([i \in 1..Len(store) |-> i],
                        LAMBDA i : KindOf(store[i].uri) = "Collection"),
     pool |-> {[uri |-> store[i].uri, obj |-> i] : i \in 1..Len(store)}]

InitSearch ==
    /\ \E store \in SearchStores :
        /\ objs = Bootstrapped(store).objs
        /\ lists = Bootstrapped(store).lists
        /\ connected = Bootstrapped(store).connected
        /\ root = Bootstrapped(store).root
        /\ pool = Bootstrapped(store).pool
    /\ deltas = <<>>
    /\ log = NoLog
    /\ phase = "idle"
    /\ events = <<>>
    /\ created_resources = <<>>
    /\ pending = <<>>
    /\ updated_uris = <<>>
    /\ update_events = <<>>
    /\ deleted_uris = <<>>
    /\ lock = "free"
    /\ boot = "done"
    /\ fetched = {}
    /\ nevents = 0
    /\ objs0 = 0
    /\ written = <<>>
    /\ returned = NoReturn

NextSearch == search_events

SearchSpec == InitSearch /\ [][NextSearch]_vars

\* ---------------------------------------------------------------- ChainSpec
\* One batch that creates a Provider, a Collection, a Calendar and an
\* Event, in every order of the four notifications, on an empty view.
ChainIds == <<"p1", "c1", "k1", "e1">>

ChainBatches ==
    {b \in [1..Len(ChainIds) -> {[type |-> "Create", uri |-> ChainIds[i]] :
                                    i \in 1..Len(ChainIds)}] :
        \A i \in 1..Len(ChainIds) : \A j \in 1..Len(ChainIds) : i # j => b[i] # b[j]}

HandleChain == HandleEvents(ChainBatches, Len(ChainIds))

NextChain ==
    \/ HandleChain
    \/ CreateProvider
    \/ CreateCollection
    \/ CreateCalendar
    \/ CreateEvent
    \/ Finish

ChainSpec == Init /\ [][NextChain]_vars

\* ---------------------------------------------------------------- ModelSpec
\* The three operations of CollectionsModel, called on the root list of a
\* bootstrapped view of one Provider and up to two Collections. A call is
\* recorded in `returned`: its name and, in `value`, the Collections given
\* (append, splice) or the position given (remove).
MaxRootLen == 4     \* items of the root list
MaxSpliceLen == 2   \* items of one splice

ModelRows == <<Row("p1", NoParent), Row("c1", "p1"), Row("c2", "p1")>>

ModelStores == {SubSeq(ModelRows, 1, n) : n \in 2..Len(ModelRows)}

InitModel ==
    /\ \E store \in ModelStores :
        /\ objs = Bootstrapped(store).objs
        /\ lists = Bootstrapped(store).lists
        /\ connected = Bootstrapped(store).connected
        /\ root = Bootstrapped(store).root
        /\ pool = Bootstrapped(store).pool
    /\ deltas = <<>>
    /\ log = NoLog
    /\ phase = "idle"
    /\ events = <<>>
    /\ created_resources = <<>>
    /\ pending = <<>>
    /\ updated_uris = <<>>
    /\ update_events = <<>>
    /\ deleted_uris = <<>>
    /\ lock = "free"
    /\ boot = "done"
    /\ fetched = {}
    /\ nevents = 0
    /\ objs0 = 0
    /\ written = <<>>
    /\ returned = NoReturn

\* the Collection objects a caller can hold
Collections == {h \in 1..Len(objs) : objs[h].kind = "Collection"}

\* what a call on the root model leaves alone
ModelFrame ==
    /\ written' = <<>>
    /\ log' = NoLog
    /\ UNCHANGED <<objs, lists, connected, pool, events, created_resources,
                   pending, updated_uris, update_events, deleted_uris, lock,
                   boot, fetched, nevents, objs0>>

\* collections_model.rs 50-57
CollectionsModelAppend ==
    /\ phase = "idle"
    /\ Len(root) < MaxRootLen
    /\ \E collection \in Collections :
        /\ root' = ModelAppend(root, collection)
        /\ deltas' = <<ModelAppendDelta(root)>>
        /\ returned' = Returned("append", "", FALSE, <<>>, <<collection>>)
    /\ phase' = phase
    /\ ModelFrame

\* collections_model.rs 68-77
CollectionsModelSplice ==
    /\ phase = "idle"
    /\ \E n \in 0..MaxSpliceLen : \E collections \in [1..n -> Collections] :
        /\ Len(root) + n <= MaxRootLen
        /\ root' = ModelSplice(root, collections)
        /\ deltas' = <<ModelSpliceDelta(root, collections)>>
        /\ returned' = Returned("splice", "", FALSE, <<>>, collections)
    /\ phase' = phase
    /\ ModelFrame

\* collections_model.rs 79-82: Vec::remove panics when pos is not an index
\* of the vector, before anything is emitted
CollectionsModelRemove ==
    /\ phase = "idle"
    /\ \E pos \in 0..Len(root) :
        /\ returned' = Returned("remove", "", FALSE, <<>>, <<pos>>)
        /\ IF pos < Len(root)
           THEN /\ root' = ModelRemove(root, pos)
                /\ deltas' = <<ModelRemoveDelta(root, pos)>>
                /\ phase' = phase
           ELSE /\ root' = root
                /\ deltas' = <<>>
                /\ phase' = "panicked"
    /\ ModelFrame

NextModel ==
    \/ CollectionsModelAppend
    \/ CollectionsModelSplice
    \/ CollectionsModelRemove

ModelSpec == InitModel /\ [][NextModel]_vars

\* ------------------------------------------------------------- ObserverSpec
\* A consumer's handler of a child list's items_changed that calls
\* Manager::find_resource. ListStore::append and ListStore::remove run it
\* inside the call, on the handler's thread, while the handler holds the
\* MutexGuard taken at line 290: resource_pool() locks the same
\* std::sync::Mutex again, which does not return (it blocks for ever, or
\* panics; std leaves open which).
ObserverCall(uri) == Returned("observer find_resource", uri, FALSE, <<>>, <<>>)

\* the call inside add_collection / add_calendar / add_event of a create
\* item: the object is built and appended; the "deleted" handler is not
\* connected yet and the pool not yet written
ObservedAppend ==
    /\ pending # <<>>
    /\ Head(pending).kind # "Provider"
    /\ ParentOf(pool, objs, Head(pending)) # 0
    /\ objs' = Append(objs, NewObj(Head(pending)))
    /\ lists' = AddChild(lists, ParentOf(pool, objs, Head(pending)), Len(objs) + 1)
    /\ connected' = Append(connected, 0)
    /\ deltas' = <<AppendDelta(lists, ParentOf(pool, objs, Head(pending)))>>

\* the call inside the remove of the "deleted" handler of a Calendar being
\* deleted
ObservedRemove ==
    /\ Deleting
    /\ LET h == PoolGet(pool, Head(deleted_uris))
       IN  /\ h # 0
           /\ objs[h].kind = "Calendar"
           /\ DeletedHandlerFinds(lists, connected, h)
           /\ lists' = EmitDeleted(lists, connected, h)
           /\ deltas' = EmitDeletedDeltas(lists, connected, h)
    /\ UNCHANGED <<objs, connected>>

ObserverFindResource ==
    /\ phase = "busy"
    /\ lock = "handler"
    /\ \/ ObservedAppend
       \/ ObservedRemove
    /\ \E uri \in Ids : returned' = ObserverCall(uri)
    /\ \/ /\ phase' = "blocked"
          /\ UNCHANGED <<events, created_resources, pending, updated_uris,
                         update_events, deleted_uris, lock>>
       \/ Panic
    /\ written' = <<>>
    /\ log' = NoLog
    /\ UNCHANGED <<root, pool, boot, fetched, nevents, objs0>>

NextObserver ==
    \/ Next
    \/ ObserverFindResource

ObserverSpec == Init /\ [][NextObserver]_vars

\* --------------------------------------------------------------- DeleteSpec
\* Batches of Delete notifications on the view that the bootstrap builds
\* from a store of one Provider, two Collections and up to three Calendars,
\* the third Calendar in the first or in the second Collection.
MaxDeletes == 3     \* Delete notifications delivered, over all batches

DeleteRows(parent) ==
    <<Row("p1", NoParent), Row("c1", "p1"), Row("c2", "p1"),
      Row("k1", "c1"), Row("k2", "c1"), Row("k3", parent)>>

DeleteStores ==
    {DeleteRows("c1"), DeleteRows("c2"), SubSeq(DeleteRows("c1"), 1, 5)}

\* the ids the store reports as deleted: the Calendars and a Collection
DeleteIds == {"k1", "k2", "k3", "c2"}

DeleteBatches ==
    UNION {[1..n -> {[type |-> "Delete", uri |-> uri] : uri \in DeleteIds}] :
            n \in 1..MaxBatchLen}

InitDelete ==
    /\ \E store \in DeleteStores :
        /\ objs = Bootstrapped(store).objs
        /\ lists = Bootstrapped(store).lists
        /\ connected = Bootstrapped(store).connected
        /\ root = Bootstrapped(store).root
        /\ pool = Bootstrapped(store).pool
    /\ deltas = <<>>
    /\ log = NoLog
    /\ phase = "idle"
    /\ events = <<>>
    /\ created_resources = <<>>
    /\ pending = <<>>
    /\ updated_uris = <<>>
    /\ update_events = <<>>
    /\ deleted_uris = <<>>
    /\ lock = "free"
    /\ boot = "done"
    /\ fetched = {}
    /\ nevents = 0
    /\ objs0 = 0
    /\ written = <<>>
    /\ returned = NoReturn

HandleDeletes == HandleEvents(DeleteBatches, MaxDeletes)

NextDelete ==
    \/ HandleDeletes
    \/ DeleteNotFound
    \/ DeleteCalendar
    \/ DeleteTodo
    \/ Finish

DeleteSpec == InitDelete /\ [][NextDelete]_vars

\* ================================================================= claims
Handles == 1..Len(objs)

Count(seq, h) == Cardinality({i \in 1..Len(seq) : seq[i] = h})

\* the uri was in the pool when the batch being handled started: objects
\* are pooled when they are built and no uri ever leaves the pool
PreviouslyInPool(uri) == \E h \in 1..objs0 : objs[h].uri = uri

\* an object of this uri was built by the batch being handled
BuiltByBatch(uri) == \E h \in (objs0 + 1)..Len(objs) : objs[h].uri = uri

\* positions i, j of created_resources hold a parent and a child of it
IsChildOf(child, parent) ==
    /\ child.parent = parent.uri
    /\ ParentKind(child.kind) = parent.kind

\* the pooled object of the child is exactly once in the child list of the
\* pooled object of its declared parent
AttachedOnce(child) ==
    /\ PoolHas(pool, child.uri)
    /\ PoolHas(pool, child.parent)
    /\ Count(lists[PoolGet(pool, child.parent)], PoolGet(pool, child.uri)) = 1

\* C1: in every reachable state the pool holds at most one Resource per id,
\* also after a Create was repeated for an id.
C1_OneResourcePerId ==
    \A e1 \in pool : \A e2 \in pool : e1.uri = e2.uri => e1 = e2

\* a second object was built for an id that was already pooled
C1_Witness ==
    \E e \in pool : \E h \in Handles : h # e.obj /\ objs[h].uri = e.uri

\* C2: a Create of a Collection, Calendar or Event whose declared parent id
\* is not in the pool when the item is processed changes neither the heap,
\* nor the pool, nor any child list, nor the root list, and the item is not
\* kept for later.
C2_AbsentParentNoEffect ==
    [][(/\ phase = "busy"
        /\ pending # <<>>
        /\ Head(pending).kind # "Provider"
        /\ ~PoolHas(pool, Head(pending).parent))
       => (/\ pool' = pool
           /\ objs' = objs
           /\ lists' = lists
           /\ connected' = connected
           /\ root' = root
           /\ deltas' = <<>>
           /\ pending' = Tail(pending)
           /\ Len(created_resources') = Len(created_resources))]_vars

\* a create was just skipped for a missing parent while the pool and a
\* child list are not empty
C2_Witness ==
    /\ phase = "busy"
    /\ log = WarnParent
    /\ \E i \in 1..Len(created_resources) :
        /\ created_resources[i].kind # "Provider"
        /\ ~PoolHas(pool, created_resources[i].parent)
        /\ ~PoolHas(pool, created_resources[i].uri)
        /\ \A j \in 1..Len(pending) : pending[j] # created_resources[i]
    /\ \E h \in Handles : lists[h] # <<>>

\* C3 as stated: after a batch that holds Create(parent) followed by
\* Create(child), the parent not in the pool before, the child is in the
\* pool and exactly once in the parent's child list.
C3_ParentThenChild_Original ==
    BatchDone =>
        \A i \in 1..Len(created_resources) : \A j \in 1..Len(created_resources) :
            (/\ i < j
             /\ IsChildOf(created_resources[j], created_resources[i])
             /\ ~PreviouslyInPool(created_resources[i].uri))
            => AttachedOnce(created_resources[j])

\* C3, amended: the same, when the Create of the parent was itself applied
\* (the parent is in the pool once the creates are processed) and the batch
\* holds no Delete of the child; it holds from the end of the create phase
\* to the end of the batch.
C3_ParentThenChild ==
    (phase = "busy" /\ pending = <<>>) =>
        \A i \in 1..Len(created_resources) : \A j \in 1..Len(created_resources) :
            (/\ i < j
             /\ IsChildOf(created_resources[j], created_resources[i])
             /\ ~PreviouslyInPool(created_resources[i].uri)
             /\ PoolHas(pool, created_resources[i].uri)
             /\ \A d \in 1..Len(events) :
                    events[d] # [type |-> "Delete", uri |-> created_resources[j].uri])
            => AttachedOnce(created_resources[j])

C3_Witness ==
    /\ BatchDone
    /\ \E i \in 1..Len(created_resources) : \E j \in 1..Len(created_resources) :
        /\ i < j
        /\ IsChildOf(created_resources[j], created_resources[i])
        /\ ~PreviouslyInPool(created_resources[i].uri)
        /\ PoolHas(pool, created_resources[i].uri)
        /\ AttachedOnce(created_resources[j])

\* C4 as stated: after a batch that holds Create(child) followed by
\* Create(parent), the child (not in the pool before) is not in the pool.
C4_ChildThenParent_Original ==
    BatchDone =>
        \A i \in 1..Len(created_resources) : \A j \in 1..Len(created_resources) :
            (/\ i < j
             /\ IsChildOf(created_resources[i], created_resources[j])
             /\ ~PreviouslyInPool(created_resources[i].uri))
            => ~PoolHas(pool, created_resources[i].uri)

\* every Create of this uri in the batch declares a parent that is not in
\* the pool
ParentNowhere(uri) ==
    /\ \E j \in 1..Len(created_resources) : created_resources[j].uri = uri
    /\ \A j \in 1..Len(created_resources) :
        created_resources[j].uri = uri =>
            /\ created_resources[j].kind # "Provider"
            /\ ~PoolHas(pool, created_resources[j].parent)

C4_DroppedInBatch ==
    (phase = "busy" /\ pending = <<>>) =>
        \A uri \in Ids : ParentNowhere(uri) => ~BuiltByBatch(uri)

\* a step of the handler builds objects only for ids the batch creates, and
\* a child list gains no other element than the object just built
C4_NoLateAttach ==
    phase = "busy" =>
        /\ \A h \in (Len(objs) + 1)..Len(objs') :
            \E i \in 1..Len(created_resources) : created_resources[i].uri = objs'[h].uri
        /\ \A owner \in Handles : \A k \in 1..Len(lists'[owner]) :
            \/ lists'[owner][k] \in (Len(objs) + 1)..Len(objs')
            \/ \E m \in 1..Len(lists[owner]) : lists[owner][m] = lists'[owner][k]

\* C4, amended: a Create(child) whose declared parent is neither in the pool
\* before the batch nor created by the same batch (whatever the order of the
\* two items) is dropped: the batch builds no object for the child, and no
\* later step attaches one unless the child is created again; a later batch
\* that only creates the parent builds and attaches the parent alone.
C4_ChildDropped == [](C4_DroppedInBatch) /\ [][C4_NoLateAttach]_vars

\* a batch held Create(child) before Create(parent), the parent was not
\* built, and the child is in no pool and no list
C4_Witness ==
    /\ BatchDone
    /\ \E i \in 1..Len(created_resources) : \E j \in 1..Len(created_resources) :
        /\ i < j
        /\ IsChildOf(created_resources[i], created_resources[j])
        /\ ParentNowhere(created_resources[i].uri)
        /\ ~PoolHas(pool, created_resources[i].uri)
        /\ \A h \in Handles : objs[h].uri # created_resources[i].uri

\* the Delete being processed names a Calendar that is in the pool
DeletingCalendar ==
    /\ Deleting
    /\ PoolGet(pool, Head(deleted_uris)) # 0
    /\ objs[PoolGet(pool, Head(deleted_uris))].kind = "Calendar"

\* C5 as stated: once a Delete of a pooled Calendar has been processed,
\* find_resource(id) returns nothing.
C5_DeleteRemovesFromPool ==
    [][(DeletingCalendar /\ phase' = "busy")
        => PoolGet(pool', Head(deleted_uris)) = 0]_vars

\* C6 as stated: a Delete of a pooled Calendar removes it from its parent
\* Collection's child list, and the list emits exactly one delta, with
\* removed = 1 and added = 0, at the position the Calendar had.
C6_DeleteEmitsOneDelta ==
    [][DeletingCalendar =>
        LET h == PoolGet(pool, Head(deleted_uris))
            c == connected[h]
        IN  /\ Find(lists[c], h) # 0
            /\ lists' = [lists EXCEPT ![c] = RemoveAt(@, Find(@, h))]
            /\ Find(lists'[c], h) = 0
            /\ deltas' = <<Delta(c, Find(lists[c], h) - 1, 1, 0)>>]_vars

DeletingAgain ==
    /\ DeletingCalendar
    /\ LET h == PoolGet(pool, Head(deleted_uris))
       IN  connected[h] # 0 /\ Find(lists[connected[h]], h) = 0

\* C8 as stated: a second Delete of the same Calendar is logged and
\* skipped; it raises no error.
C8_SecondDeleteSkipped ==
    [][DeletingAgain
        => (/\ phase' = "busy"
            /\ lists' = lists
            /\ deleted_uris' = Tail(deleted_uris))]_vars

\* the Update being applied is that of a Calendar
UpdatingCalendar ==
    /\ Updating
    /\ objs[Head(update_events).old].kind = "Calendar"

\* C9: an Update of a pooled Calendar sets the name and the color of the
\* existing object to the resolved values; no object is built, and the pool
\* entry and the child lists hold the same object as before.
C9_UpdateInPlace ==
    [][UpdatingCalendar =>
        LET old == Head(update_events).old
            new == Head(update_events).new
        IN  /\ objs'[old].name = new.name
            /\ objs'[old].color = new.color
            /\ objs'[old].uri = objs[old].uri
            /\ Len(objs') = Len(objs)
            /\ pool' = pool
            /\ PoolGet(pool', new.uri) = old
            /\ lists' = lists
            /\ phase' = "busy"]_vars

\* an Update of a Calendar that sits in its parent's child list was applied
C9_Witness ==
    /\ BatchDone
    /\ \E i \in 1..Len(events) :
        /\ events[i].type = "Update"
        /\ KindOf(events[i].uri) = "Calendar"
        /\ LET h == PoolGet(pool, events[i].uri)
           IN  h # 0 /\ connected[h] # 0 /\ Find(lists[connected[h]], h) # 0

\* C10 as stated: an Update for an id that is not in the pool is skipped
\* with a warning: no error, no pool or list entry for the id.
C10_UpdateAbsentSkipped ==
    [][(/\ phase = "busy"
        /\ pending = <<>>
        /\ \E i \in 1..Len(updated_uris) : PoolGet(pool, updated_uris[i]) = 0)
       => (/\ phase' = "busy"
           /\ pool' = pool
           /\ lists' = lists)]_vars

\* C11 as stated: when the resolution of an id of the batch fails (the id
\* resolves to no row, or a scalar such as the color does not parse), only
\* that item is skipped: the step that resolves the creates of a batch, and
\* the step that resolves its updates (all of them in the pool), leave the
\* handler running.
C11_ResolutionFailureSkipped ==
    [][(\/ nevents' # nevents
        \/ /\ phase = "busy"
           /\ pending = <<>>
           /\ updated_uris # <<>>
           /\ \A i \in 1..Len(updated_uris) : PoolGet(pool, updated_uris[i]) # 0)
       => phase' = "busy"]_vars

\* the number of places (child list, position) that hold the object
ListedTimes(h) ==
    Cardinality({p \in Handles \X (1..Len(objs)) :
                    p[2] <= Len(lists[p[1]]) /\ lists[p[1]][p[2]] = h})

\* C12 as stated: after the bootstrap and after any sequence of completed
\* batches, every Resource of the pool that is not a Provider is in exactly
\* one child list, exactly once.
C12_NoOrphanNoDuplicate ==
    (phase = "idle" /\ boot = "done") =>
        \A e \in pool : objs[e.obj].kind # "Provider" => ListedTimes(e.obj) = 1

\* the Create being processed is that of a Calendar whose declared parent
\* is in the pool as the Collection c
CreatingCalendarUnder(c) ==
    /\ Creating("Calendar")
    /\ c = GetOfKind(pool, objs, Head(pending).parent, "Collection")

\* C13: a Create of a Calendar whose parent Collection is in the pool builds
\* the Calendar, puts it in the pool and appends it at the end of the
\* Collection's child list, after the children the list has; the list emits
\* one delta: position = the previous length, removed = 0, added = 1.
C13_CalendarAppended ==
    [][\A c \in Handles : CreatingCalendarUnder(c) =>
        LET h == Len(objs) + 1
            pre == Head(pending)
        IN  /\ Len(objs') = h
            /\ objs'[h] = [kind |-> "Calendar", uri |-> pre.uri,
                           name |-> pre.name, color |-> pre.color]
            /\ PoolGet(pool', pre.uri) = h
            /\ lists'[c] = Append(lists[c], h)
            /\ deltas' = <<Delta(c, Len(lists[c]), 0, 1)>>
            /\ phase' = "busy"]_vars

\* a Calendar was just created by a batch under a Collection that had a
\* child already: it is the last of the list and the delta is at position
\* >= 1
C13_Witness ==
    /\ phase = "busy"
    /\ Len(deltas) = 1
    /\ deltas[1].list # 0
    /\ deltas[1].position >= 1
    /\ deltas[1].added = 1
    /\ objs[deltas[1].list].kind = "Collection"
    /\ objs[Len(objs)].kind = "Calendar"
    /\ lists[deltas[1].list][Len(lists[deltas[1].list])] = Len(objs)
    /\ PoolGet(pool, objs[Len(objs)].uri) = Len(objs)

\* the bootstrap ran first (no batch was handled) and is through
BootstrapDone ==
    /\ phase = "idle"
    /\ boot = "done"
    /\ nevents = 0

\* the handles of the sequence increase: objects are in the order in which
\* they were built, which is the fetch order
InFetchOrder(s) == \A i \in 1..Len(s) : \A j \in 1..Len(s) : i < j => s[i] < s[j]

\* after the bootstrap every object built from a row is the pooled Resource
\* of its id, every child is in exactly one list, of an object of the parent
\* kind, the lists are in fetch order, and the root list holds exactly the
\* Collections, in fetch order
C14_BootstrapState ==
    BootstrapDone =>
        /\ pool = {[uri |-> objs[h].uri, obj |-> h] : h \in Handles}
        /\ Cardinality(pool) = Len(objs)
        /\ \A h \in Handles :
            /\ InFetchOrder(lists[h])
            /\ \A i \in 1..Len(lists[h]) :
                ParentKind(objs[lists[h][i]].kind) = objs[h].kind
            /\ objs[h].kind # "Provider" => ListedTimes(h) = 1
        /\ InFetchOrder(root)
        /\ \A h \in Handles : objs[h].kind = "Collection" <=> Count(root, h) = 1
        /\ \A i \in 1..Len(root) : objs[root[i]].kind = "Collection"

\* the step that fetches a row whose declared parent is in the pool as a
\* Resource of the parent kind (and whose color parses) builds the object
\* of the row, makes it the pooled Resource of the id and appends it at the
\* end of the child list of that parent; a Collection is appended at the
\* end of the root list as well
C14_RowAttached ==
    \A r \in fetched' \ fetched :
        LET kind == KindOf(r.uri)
            parent == GetOfKind(pool, objs, r.parent, ParentKind(kind))
            h == Len(objs) + 1
        IN  (phase' = "idle" /\ (kind = "Provider" \/ parent # 0)) =>
                /\ Len(objs') = h
                /\ objs'[h].uri = r.uri
                /\ objs'[h].kind = kind
                /\ PoolGet(pool', r.uri) = h
                /\ \A e \in pool : e.uri # r.uri => e \in pool'
                /\ kind # "Provider" => lists'[parent] = Append(lists[parent], h)
                /\ root' = IF kind = "Collection" THEN Append(root, h) ELSE root

\* C14: after a bootstrap, run from construction against a store in which
\* every declared parent exists as a resource of the parent kind (and every
\* color parses), the pool
\* holds exactly the fetched Providers, Collections, Calendars and Events,
\* each child list holds exactly its children in fetch order, and the root
\* list holds exactly the Collections.
C14_Bootstrap == [](C14_BootstrapState) /\ [][C14_RowAttached]_vars

\* the bootstrap of Provider P1, Collection C1 and two Calendars of C1:
\* 4 pool entries, P1.collections = [C1], C1.calendars = [Cal1, Cal2],
\* root list = [C1]
C14_Witness ==
    /\ BootstrapDone
    /\ Cardinality(pool) = 4
    /\ \E p \in Handles : \E c \in Handles : \E k1 \in Handles : \E k2 \in Handles :
        /\ objs[p].kind = "Provider"
        /\ objs[c].kind = "Collection"
        /\ objs[k1].kind = "Calendar"
        /\ objs[k2].kind = "Calendar"
        /\ k1 < k2
        /\ lists[p] = <<c>>
        /\ lists[c] = <<k1, k2>>
        /\ root = <<c>>

\* C15: during the bootstrap a fetched row whose declared parent id is not
\* in the pool, or is in the pool as a Resource that is not of the parent
\* kind, is skipped: no object is built, the pool, the child lists and the
\* root list are as before, and the fetch goes on with the following rows.
C15_RowSkipped ==
    [][\A r \in fetched' \ fetched :
        (/\ KindOf(r.uri) # "Provider"
         /\ \/ ~PoolHas(pool, r.parent)
            \/ objs[PoolGet(pool, r.parent)].kind # ParentKind(KindOf(r.uri)))
        => (/\ objs' = objs
            /\ pool' = pool
            /\ lists' = lists
            /\ connected' = connected
            /\ root' = root
            /\ deltas' = <<>>
            /\ log' = WarnParent
            /\ phase' = "idle"
            /\ boot' = boot)]_vars

\* in one fetch a row was skipped (it is in no pool) and the row fetched
\* after it was attached by the last step
C15_Witness ==
    /\ phase = "idle"
    /\ boot \in {"Collection", "Calendar", "Event"}
    /\ deltas # <<>>
    /\ \E r \in fetched : objs[Len(objs)].uri = r.uri
    /\ \E r \in fetched : ~PoolHas(pool, r.uri)
    /\ \E r \in fetched :
        /\ ~PoolHas(pool, r.uri)
        /\ PoolHas(pool, r.parent)

\* C16: a write-back call of the consumer (create_calendar, update_calendar,
\* delete_calendar, create_event) sends its calls to the write service and
\* leaves the pool, every child list, the root list and the fields of every
\* Resource as they are, and no list emits a delta.
C16_WriteBackFrame ==
    [][written' # <<>>
        => (/\ pool' = pool
            /\ objs' = objs
            /\ lists' = lists
            /\ connected' = connected
            /\ root' = root
            /\ deltas' = <<>>)]_vars

\* update_calendar sent a name and a color for a pooled Calendar that sits
\* in a child list
C16_Witness ==
    /\ phase = "idle"
    /\ Len(written) = 2
    /\ written[1].method = "UpdateCalendarName"
    /\ written[2].method = "UpdateCalendarColor"
    /\ PoolHas(pool, written[1].uri)
    /\ \E h \in Handles : objs[h].uri = written[1].uri /\ ListedTimes(h) = 1

\* the Update or the Delete being processed names a pooled Provider,
\* Collection or Event
ProcessingUndefined ==
    \/ /\ Updating
       /\ objs[Head(update_events).old].kind \in {"Provider", "Collection", "Event"}
    \/ /\ Deleting
       /\ PoolGet(pool, Head(deleted_uris)) # 0
       /\ objs[PoolGet(pool, Head(deleted_uris))].kind
            \in {"Provider", "Collection", "Event"}

\* C17 as stated: an Update or a Delete of a Provider, a Collection or an
\* Event that is in the pool fails explicitly; it is never passed over in
\* silence.
C17_UndefinedFailsLoudly ==
    [][ProcessingUndefined => phase' = "panicked"]_vars

\* C18 as stated: the pool lock is taken per lookup and is not held for the
\* duration of the batch: between two items of a batch the lock is free
\* (so that an external find_resource can run there).
C18_LockFreeBetweenItems == phase = "busy" => lock = "free"

\* between two items of a batch the handler holds the pool lock
C18_LockHeld == phase = "busy" => lock = "handler"

\* find_resource runs only while no batch is being handled
C18_ReadsOutsideBatch ==
    returned'.call = "find_resource" => (phase = "idle" /\ phase' = "idle")

\* C18, amended: the handler takes the pool lock once, when it starts, and
\* holds it until it returns; an external find_resource waits for it, runs
\* only before or after the batch and never observes the pool with some but
\* not all of the items of a batch applied.
C18_BatchHoldsLock == [](C18_LockHeld) /\ [][C18_ReadsOutsideBatch]_vars

\* a batch is partly applied (an object was built, an item is still to be
\* processed) and the lock is the handler's
C18_Witness ==
    /\ phase = "busy"
    /\ lock = "handler"
    /\ Len(objs) > objs0
    /\ PoolGet(pool, objs[Len(objs)].uri) = Len(objs)
    /\ (pending # <<>> \/ updated_uris # <<>> \/ deleted_uris # <<>>)

\* C19: deletion does not cascade: the step that processes the Delete of a
\* pooled Calendar leaves every Event of the Calendar in the pool, with the
\* same object, and leaves the Calendar's own events list as it is.
C19_DeleteDoesNotCascade ==
    [][DeletingCalendar =>
        LET h == PoolGet(pool, Head(deleted_uris))
        IN  /\ lists'[h] = lists[h]
            /\ \A i \in 1..Len(lists[h]) :
                LET ev == lists[h][i]
                IN  /\ objs'[ev] = objs[ev]
                    /\ PoolGet(pool', objs[ev].uri) = PoolGet(pool, objs[ev].uri)
            /\ \A e \in pool : objs[e.obj].kind = "Event" => e \in pool']_vars

\* the Delete of a Calendar that has a pooled Event was just processed: the
\* Calendar left its Collection's list, the Event is in the Calendar's list
\* and in the pool
C19_Witness ==
    /\ phase = "busy"
    /\ Len(deltas) = 1
    /\ deltas[1].removed = 1
    /\ \E i \in 1..Len(events) :
        /\ events[i].type = "Delete"
        /\ LET h == PoolGet(pool, events[i].uri)
           IN  /\ h # 0
               /\ objs[h].kind = "Calendar"
               /\ connected[h] # 0
               /\ Find(lists[connected[h]], h) = 0
               /\ lists[h] # <<>>
               /\ \A k \in 1..Len(lists[h]) :
                    PoolGet(pool, objs[lists[h][k]].uri) = lists[h][k]

\* the rows from which the objects of the view were built: each object's id
\* and the id of the owner of the list it is in
RowsOfView ==
    [h \in Handles |->
        Row(objs[h].uri,
            IF \E owner \in Handles : Find(lists[owner], h) # 0
            THEN objs[CHOOSE owner \in Handles : Find(lists[owner], h) # 0].uri
            ELSE NoParent)]

\* the views of SearchSpec are built as retrieve_resources builds them:
\* whenever the bootstrap comes first and is through, the lists, the
\* connections, the root list and the pool are those of Bootstrapped
BootstrappedAgrees ==
    BootstrapDone =>
        /\ lists = Bootstrapped(RowsOfView).lists
        /\ connected = Bootstrapped(RowsOfView).connected
        /\ root = Bootstrapped(RowsOfView).root
        /\ pool = Bootstrapped(RowsOfView).pool
        /\ \A h \in Handles :
            /\ objs[h].kind = Bootstrapped(RowsOfView).objs[h].kind
            /\ objs[h].uri = Bootstrapped(RowsOfView).objs[h].uri

\* the returned list: the objects the pool holds as Events for the matched
\* ids, one per matched id that it holds so, in the order of the matches
IsSearchResult(value, matched) ==
    LET kept == {j \in 1..Len(matched) :
                    /\ PoolHas(pool, matched[j])
                    /\ objs[PoolGet(pool, matched[j])].kind = "Event"}
    IN  /\ Len(value) = Cardinality(kept)
        /\ \A j \in kept :
            value[Cardinality({k \in kept : k < j}) + 1] = PoolGet(pool, matched[j])

C20_ResultsExact ==
    (returned.call = "search_events" /\ returned.arg # "")
        => IsSearchResult(returned.value, returned.matched)

C20_PoolUnchanged ==
    returned'.call = "search_events"
        => (pool' = pool /\ objs' = objs /\ lists' = lists /\ root' = root)

\* C20: search_events with a non-empty query returns exactly the Events
\* that are in the pool and whose ids the query matched, in the order of
\* the query's results; a matched id that is not in the pool, or is in the
\* pool as a Resource that is not an Event, is skipped; the pool is
\* unchanged.
C20_SearchEvents == [](C20_ResultsExact) /\ [][C20_PoolUnchanged]_vars

\* the cursor returned e2, k1, e1 and the pool holds all three: the result
\* is [e2, e1], in the order of the query and not of the pool, and the
\* Calendar is skipped
C20_Witness ==
    /\ returned.call = "search_events"
    /\ Len(returned.matched) = 3
    /\ PoolHas(pool, returned.matched[2])
    /\ objs[PoolGet(pool, returned.matched[2])].kind = "Calendar"
    /\ Len(returned.value) = 2
    /\ returned.value[1] > returned.value[2]
    /\ log = WarnNotInPool

\* C21: search_events with the empty string returns an empty list and
\* sends no query to the store.
C21_EmptyQuery ==
    (returned.call = "search_events" /\ returned.arg = "")
        => (/\ returned.value = <<>>
            /\ ~returned.queried
            /\ returned.matched = <<>>)

\* search_events("") returned while the pool holds two Events
C21_Witness ==
    /\ returned.call = "search_events"
    /\ returned.arg = ""
    /\ Cardinality({e \in pool : objs[e.obj].kind = "Event"}) = 2

Depth(kind) ==
    CASE kind = "Provider" -> 1
      [] kind = "Collection" -> 2
      [] kind = "Calendar" -> 3
      [] kind = "Event" -> 4

\* the creates still to be processed are ordered by depth, and those of one
\* kind are the last ones of that kind in the batch, in batch order
C22_ByDepth ==
    phase = "busy" =>
        /\ \A i \in 1..Len(pending) : \A j \in 1..Len(pending) :
            i < j => Depth(pending[i].kind) <= Depth(pending[j].kind)
        /\ \A kind \in {"Provider", "Collection", "Calendar", "Event"} :
            LET inBatch == SelectSeq(created_resources, LAMBDA pre : pre.kind = kind)
                left == SelectSeq(pending, LAMBDA pre : pre.kind = kind)
            IN  /\ Len(left) <= Len(inBatch)
                /\ left = SubSeq(inBatch, Len(inBatch) - Len(left) + 1, Len(inBatch))

\* a create step processes the first of the creates still to be processed
C22_HeadFirst ==
    (phase = "busy" /\ pending # <<>>) => (phase' = "busy" /\ pending' = Tail(pending))

\* when a child is about to be attached, every create of the batch for its
\* declared parent has been processed
C22_ParentProcessed ==
    (phase = "busy" /\ pending # <<>>) =>
        \A i \in 1..Len(pending) : ~IsChildOf(Head(pending), pending[i])

\* the batch creates a chain: one resource of each kind, each declaring the
\* one above it as its parent
IsChain(cr) ==
    /\ Len(cr) = 4
    /\ \A kind \in {"Provider", "Collection", "Calendar", "Event"} :
        \E i \in 1..Len(cr) : cr[i].kind = kind
    /\ \A i \in 1..Len(cr) :
        cr[i].kind # "Provider" => \E j \in 1..Len(cr) : IsChildOf(cr[i], cr[j])

\* once the creates of a chain are processed every member is in the pool
\* and every child is once in its parent's list
C22_ChainAttached ==
    (phase = "busy" /\ pending = <<>> /\ IsChain(created_resources)) =>
        \A i \in 1..Len(created_resources) :
            /\ PoolHas(pool, created_resources[i].uri)
            /\ created_resources[i].kind # "Provider"
                => AttachedOnce(created_resources[i])

\* C22: within one batch the creates are processed by depth (Providers,
\* Collections, Calendars, Events) whatever their order in the batch, so the
\* create of a parent is processed before its child is attached; a batch
\* that creates a whole Provider / Collection / Calendar / Event chain, in
\* any order, attaches every member.
C22_CreatesByDepth ==
    [](C22_ByDepth /\ C22_ParentProcessed /\ C22_ChainAttached)
        /\ [][C22_HeadFirst]_vars

\* a chain announced child first (Event, Calendar, Collection, Provider) is
\* through and whole
C22_Witness ==
    /\ BatchDone
    /\ IsChain(created_resources)
    /\ created_resources[1].kind = "Event"
    /\ created_resources[2].kind = "Calendar"
    /\ created_resources[3].kind = "Collection"
    /\ created_resources[4].kind = "Provider"
    /\ \A i \in 1..3 : AttachedOnce(created_resources[i])
    /\ Cardinality(pool) = 4

\* the batch being handled holds a notification of this type for the uri
InBatch(type, uri) ==
    \E i \in 1..Len(events) : events[i] = [type |-> type, uri |-> uri]

\* some child list holds an object of this uri
Listed(uri) ==
    \E owner \in Handles : \E i \in 1..Len(lists[owner]) :
        objs[lists[owner][i]].uri = uri

IsSuffix(s, t) == Len(s) <= Len(t) /\ s = SubSeq(t, Len(t) - Len(s) + 1, Len(t))

\* the three phases follow each other: no Update is resolved and no Delete
\* applied while a Create is left, no Delete is applied while an Update is
\* left, and what is left of a phase is the tail of the ids of that type,
\* in batch order
C23_PhaseOrder ==
    phase = "busy" =>
        /\ pending # <<>> =>
            /\ updated_uris = UrisOf(events, "Update")
            /\ update_events = <<>>
        /\ (pending # <<>> \/ updated_uris # <<>> \/ update_events # <<>>) =>
            deleted_uris = UrisOf(events, "Delete")
        /\ updated_uris \in {<<>>, UrisOf(events, "Update")}
        /\ IsSuffix([i \in 1..Len(update_events) |-> update_events[i].new.uri],
                    UrisOf(events, "Update"))
        /\ IsSuffix(deleted_uris, UrisOf(events, "Delete"))
        /\ [i \in 1..Len(created_resources) |-> created_resources[i].uri]
                = UrisOf(events, "Create")

\* a batch that creates and deletes a Calendar that the pool did not hold
\* before leaves no object of that id in a child list
C23_FreshCreateDelete ==
    BatchDone =>
        \A uri \in Ids :
            (/\ KindOf(uri) = "Calendar"
             /\ InBatch("Create", uri)
             /\ InBatch("Delete", uri)
             /\ ~PreviouslyInPool(uri))
            => ~Listed(uri)

\* C23 as stated: the batch is applied as its Creates, then its Updates,
\* then its Deletes, whatever the interleaving; so a batch that holds both
\* Create(cal) and Delete(cal), in either order, ends with cal absent from
\* its parent's child list.
C23_CreateDeleteAbsent ==
    BatchDone =>
        \A uri \in Ids :
            (/\ KindOf(uri) = "Calendar"
             /\ InBatch("Create", uri)
             /\ InBatch("Delete", uri))
            => ~Listed(uri)

\* a batch <<Delete(cal), Create(cal)>> for a Calendar new to the pool is
\* through: the Calendar was built, pooled and taken out of the list again
C23_FreshWitness ==
    /\ BatchDone
    /\ Len(events) = 2
    /\ events[1].type = "Delete"
    /\ events[2] = [type |-> "Create", uri |-> events[1].uri]
    /\ KindOf(events[1].uri) = "Calendar"
    /\ ~PreviouslyInPool(events[1].uri)
    /\ BuiltByBatch(events[1].uri)
    /\ ~Listed(events[1].uri)

\* the number of places (child list, position) that hold an object of this
\* uri, in the given heap and lists
PlacesOf(os, ls, uri) ==
    Cardinality({p \in (1..Len(os)) \X (1..Len(os)) :
                    p[2] <= Len(ls[p[1]]) /\ os[ls[p[1]][p[2]]].uri = uri})

\* the bootstrap fetches a row of an id that is in the view once already:
\* a cursor returns an id once, so the pooled Resource was built from a
\* Create notification
FetchingCreated(r) ==
    /\ r \in fetched' \ fetched
    /\ PoolHas(pool, r.uri)
    /\ PlacesOf(objs, lists, r.uri) = 1

\* the first batch after the bootstrap creates an id that the bootstrap
\* fetched and that is in the view once
CreatingFetched ==
    /\ phase = "busy"
    /\ pending # <<>>
    /\ boot = "done"
    /\ nevents = Len(events)
    /\ PoolHas(pool, Head(pending).uri)
    /\ ~BuiltByBatch(Head(pending).uri)
    /\ PlacesOf(objs, lists, Head(pending).uri) = 1

\* C28 as stated: a resource that is both returned by the bootstrap fetch
\* and announced by a Create notification, in either processing order, is
\* once in its parent's child list and once in the pool after the second of
\* the two is processed.
C28_BootstrapAndCreateOnce ==
    [][/\ \A r \in fetched' : (FetchingCreated(r) /\ phase' = "idle") =>
            /\ PlacesOf(objs', lists', r.uri) = 1
            /\ Cardinality({e \in pool' : e.uri = r.uri}) = 1
       /\ (CreatingFetched /\ phase' = "busy") =>
            /\ PlacesOf(objs', lists', Head(pending).uri) = 1
            /\ Cardinality({e \in pool' : e.uri = Head(pending).uri}) = 1]_vars

\* the part of C28 for the bootstrap that comes second
C28_FetchAfterCreate ==
    [][\A r \in fetched' : (FetchingCreated(r) /\ phase' = "idle") =>
            PlacesOf(objs', lists', r.uri) = 1]_vars

\* the part of C28 for the Create that comes second
C28_CreateAfterFetch ==
    [][(CreatingFetched /\ phase' = "busy") =>
            PlacesOf(objs', lists', Head(pending).uri) = 1]_vars

\* a batch is delivered (the handler is entered) only when no batch is
\* being handled: the lock is free and nothing of an earlier batch is left
C24_EnteredWhenIdle ==
    nevents' # nevents =>
        /\ phase = "idle"
        /\ lock = "free"
        /\ events = <<>>
        /\ pending = <<>>
        /\ updated_uris = <<>>
        /\ update_events = <<>>
        /\ deleted_uris = <<>>

\* while a batch is being handled, a step that changes the heap, the pool
\* or a list applies an item of that batch, and the batch stays the same
C24_StepsOfTheBatch ==
    (phase = "busy" /\ phase' = "busy") =>
        /\ events' = events
        /\ created_resources' = created_resources
        /\ nevents' = nevents
        /\ (objs' # objs \/ pool' # pool \/ lists' # lists \/ root' # root) =>
            \/ pending # <<>> /\ pending' = Tail(pending)
            \/ update_events # <<>> /\ update_events' = Tail(update_events)
            \/ deleted_uris # <<>> /\ deleted_uris' = Tail(deleted_uris)

\* the handler holds the pool lock exactly while a batch is being handled
C24_OneHolder == (phase = "busy") <=> (lock = "handler")

\* C24: notification batches are never overlapped: the handler is entered
\* only when no execution of it is active, and every mutation of the pool
\* and of the lists made while a batch is handled applies an item of that
\* batch, so all mutations of a batch come before any of the next.
C24_NoOverlap ==
    [](C24_OneHolder) /\ [][C24_EnteredWhenIdle /\ C24_StepsOfTheBatch]_vars

\* a second batch is building an object after a first batch, handled
\* before the bootstrap, built one
C24_Witness ==
    /\ phase = "busy"
    /\ boot = "pending"
    /\ nevents > Len(events)
    /\ objs0 >= 1
    /\ Len(objs) > objs0

\* a call of this name on the root model returns in this step
ModelCallReturns(call) == returned'.call = call /\ phase' = "idle"

C25_Append ==
    ModelCallReturns("append") =>
        /\ root' = Append(root, returned'.value[1])
        /\ deltas' = <<Delta(0, Len(root), 0, 1)>>

C25_Splice ==
    ModelCallReturns("splice") =>
        /\ root' = root \o returned'.value
        /\ deltas' = <<Delta(0, Len(root), 0, Len(returned'.value))>>

C25_Remove ==
    ModelCallReturns("remove") =>
        LET pos == returned'.value[1]
        IN  /\ Len(root') = Len(root) - 1
            /\ \A i \in 1..Len(root') :
                root'[i] = IF i <= pos THEN root[i] ELSE root[i + 1]
            /\ deltas' = <<Delta(0, pos, 1, 0)>>

\* the deltas that the root list emitted (its deltas carry list 0)
RootDeltas(d) == SelectSeq(d, LAMBDA x : x.list = 0)

C25_Length ==
    (root' # root \/ returned'.call \in {"append", "splice", "remove"}) =>
        /\ phase' = "idle" => Len(RootDeltas(deltas')) = 1
        /\ Len(RootDeltas(deltas')) <= 1
        /\ Len(root') = Len(root)
            + (IF RootDeltas(deltas') = <<>> THEN 0
               ELSE RootDeltas(deltas')[1].added - RootDeltas(deltas')[1].removed)

\* C25: every mutation of the root list emits exactly one delta within the
\* call, and the delta matches the change: append emits (old length, 0, 1),
\* a splice of n items (old length, 0, n), remove(pos) (pos, 1, 0); after
\* each the length is the old length plus added minus removed.
C25_OneMatchingDelta ==
    [][C25_Append /\ C25_Splice /\ C25_Remove /\ C25_Length]_vars

\* a splice of two items onto a list of two has returned
C25_Witness ==
    /\ returned.call = "splice"
    /\ phase = "idle"
    /\ Len(returned.value) = 2
    /\ Len(root) = 4
    /\ deltas = <<Delta(0, 2, 0, 2)>>

\* a remove at the second position of a list of three has returned: two
\* items are left
C25_RemoveWitness ==
    /\ returned.call = "remove"
    /\ phase = "idle"
    /\ returned.value = <<1>>
    /\ Len(root) = 2
    /\ deltas = <<Delta(0, 1, 1, 0)>>

\* the root list holds a Collection of this uri
InRoot(uri) == \E i \in 1..Len(root) : objs[root[i]].uri = uri

\* the pool holds this uri as a Collection
PooledCollection(uri) ==
    PoolHas(pool, uri) /\ objs[PoolGet(pool, uri)].kind = "Collection"

\* C26 as stated: between two batches (and whatever the bootstrap has done)
\* a Collection is in the pool if and only if it is in the root list, also
\* a Collection created by a Create notification.
C26_RootHoldsPooledCollections ==
    phase = "idle" => \A uri \in Ids : PooledCollection(uri) <=> InRoot(uri)

\* the part of C26 that holds: what the root list holds is a Collection
\* that the pool holds
C26_RootIsPooled ==
    \A uri \in Ids : InRoot(uri) => PooledCollection(uri)

\* C27 as stated: handling a batch never blocks on the pool lock it holds:
\* when an observer of a child list, run inside the append of a create or
\* inside the removal of a deleted Calendar, calls find_resource, the call
\* returns and the batch goes on.
C27_ObserverCallReturns ==
    returned.call = "observer find_resource" => phase = "busy"

\* the uri is in the pool as a Resource that is not of the parent kind of
\* `kind`
WrongKindParent(kind, parent) ==
    /\ kind # "Provider"
    /\ PoolHas(pool, parent)
    /\ objs[PoolGet(pool, parent)].kind # ParentKind(kind)

\* the step leaves the heap, the pool and every list as they are and emits
\* nothing but the warning
Skipped ==
    /\ objs' = objs
    /\ pool' = pool
    /\ lists' = lists
    /\ connected' = connected
    /\ root' = root
    /\ deltas' = <<>>
    /\ log' = WarnParent

C29_CreateSkipped ==
    (/\ phase = "busy"
     /\ pending # <<>>
     /\ WrongKindParent(Head(pending).kind, Head(pending).parent))
    => (Skipped /\ phase' = "busy" /\ pending' = Tail(pending))

C29_FetchSkipped ==
    \A r \in fetched' \ fetched :
        WrongKindParent(KindOf(r.uri), r.parent) => (Skipped /\ phase' = "idle")

\* every child list holds children of the kind below its owner's
C29_ListsByKind ==
    \A owner \in Handles : \A i \in 1..Len(lists[owner]) :
        ParentKind(objs[lists[owner][i]].kind) = objs[owner].kind

\* C29: a child is attached only to a parent of the expected kind: a Create
\* or a bootstrap row for a Calendar whose declared parent is in the pool
\* but is not a Collection, for an Event whose parent is not a Calendar, or
\* for a Collection whose parent is not a Provider, is skipped and changes
\* neither the pool nor any list.
C29_ParentKindChecked ==
    [](C29_ListsByKind) /\ [][C29_CreateSkipped /\ C29_FetchSkipped]_vars

\* the create item that the last step processed
JustCreated ==
    CreateOrder(created_resources)[Len(created_resources) - Len(pending)]

\* the Create of a Calendar that declares a pooled Provider as its parent
\* was just skipped, and the Provider's list holds its Collection only
C29_Witness ==
    /\ phase = "busy"
    /\ log = WarnParent
    /\ Len(pending) < Len(created_resources)
    /\ JustCreated.kind = "Calendar"
    /\ WrongKindParent("Calendar", JustCreated.parent)
    /\ objs[PoolGet(pool, JustCreated.parent)].kind = "Provider"
    /\ Len(lists[PoolGet(pool, JustCreated.parent)]) = 1
    /\ ~PoolHas(pool, JustCreated.uri)

PoolKeys(p) == {e.uri : e \in p}

\* C30: an Update of a Calendar changes only that Calendar's name and
\* color: its id, its events list, its position in its parent's child list,
\* the pool's key set and every other resource are unchanged, and no list
\* emits a structural delta.
C30_UpdateFrame ==
    [][UpdatingCalendar =>
        LET old == Head(update_events).old
        IN  /\ Len(objs') = Len(objs)
            /\ \A h \in Handles : h # old => objs'[h] = objs[h]
            /\ objs'[old].uri = objs[old].uri
            /\ objs'[old].kind = objs[old].kind
            /\ lists'[old] = lists[old]
            /\ \A owner \in Handles : lists'[owner] = lists[owner]
            /\ connected' = connected
            /\ root' = root
            /\ PoolKeys(pool') = PoolKeys(pool)
            /\ \A uri \in PoolKeys(pool) : PoolGet(pool', uri) = PoolGet(pool, uri)
            /\ deltas' = <<>>]_vars

\* the Update of a Calendar that is second in its Collection's list was
\* applied: it is still second and the other Calendar is as it was built
C30_Witness ==
    /\ phase = "busy"
    /\ pending = <<>>
    /\ updated_uris = <<>>
    /\ Len(update_events) < Len(UrisOf(events, "Update"))
    /\ deleted_uris = UrisOf(events, "Delete")
    /\ \E i \in 1..Len(events) :
        /\ events[i].type = "Update"
        /\ LET h == PoolGet(pool, events[i].uri)
           IN  /\ h # 0
               /\ objs[h].kind = "Calendar"
               /\ connected[h] # 0
               /\ Len(lists[connected[h]]) = 2
               /\ Find(lists[connected[h]], h) = 2
               /\ objs[h].name = "b"
               /\ objs[lists[connected[h]][1]].name = "a"

\* the sequence without the item h
Without(s, h) == SelectSeq(s, LAMBDA x : x # h)

\* C31: a Delete notification for a Calendar removes only that Calendar
\* from its parent's child list: the other Calendars of the list keep their
\* relative order, and the child lists of every other Collection (and of
\* every other object) are unchanged.
C31_DeleteRemovesOnlyThat ==
    [][DeletingCalendar =>
        LET h == PoolGet(pool, Head(deleted_uris))
            c == connected[h]
        IN  /\ \A owner \in Handles : owner # c => lists'[owner] = lists[owner]
            /\ c # 0 =>
                /\ Without(lists'[c], h) = Without(lists[c], h)
                /\ phase' = "busy" => lists'[c] = Without(lists[c], h)
            /\ root' = root
            /\ objs' = objs]_vars

\* the Delete of the first of three Calendars of a Collection was applied:
\* the two others are left, in their order, and the other Collection is in
\* the view
C31_Witness ==
    /\ phase = "busy"
    /\ deltas = <<Delta(2, 0, 1, 0)>>
    /\ lists[2] = <<5, 6>>
    /\ objs[3].kind = "Collection"
    /\ objs[4].kind = "Calendar"
    /\ connected[4] = 2

\* the Delete of a Calendar of one Collection was applied while the other
\* Collection holds a Calendar, which it keeps
C31_OtherCollectionWitness ==
    /\ phase = "busy"
    /\ Len(deltas) = 1
    /\ deltas[1].list = 2
    /\ deltas[1].removed = 1
    /\ lists[3] = <<6>>

====
